---- MODULE Spec2Model ----
(***************************************************************************)
(* Model of the communications agent (agent.py) and its Flask routes       *)
(* (app.py): the JSON project store, plan generation, the due scan, draft  *)
(* generation and the recording of sent communications.                    *)
(*                                                                         *)
(* Representation.                                                         *)
(*  - A calendar date is its day number; a date STRING is a record         *)
(*    [k, day, padded]: k = "date" for text that '%Y-%m-%d' parses         *)
(*    (zero-padded or not: "2025-01-05" and "2025-1-5" are two strings of  *)
(*    one date), k = "text" for text it rejects, k = "none" for None.      *)
(*  - A JSON object is a record with the set `keys` of the keys present.   *)
(*  - Exceptions are values: every operator that can raise returns         *)
(*    [exc |-> name, val |-> result], exc = "none" when it returns.        *)
(*  - Free-text fields no control flow reads (name, subject, summary,      *)
(*    stakeholders' addresses, uuids of history entries and drafts) are    *)
(*    not represented.                                                     *)
(***************************************************************************)
EXTENDS Integers, Sequences, FiniteSets, TLC

VARIABLES
    store,      \* data/projects.json: the sequence data['projects']
    today,      \* datetime.now().date() as a day number
    call,       \* the last request handled: its name and arguments
    ret,        \* what that request returned
    req         \* requests in flight (a handler between its load and its save)

vars == <<store, today, call, ret, req>>

(***************************************************************************)
(* Bounds of the model                                                     *)
(***************************************************************************)
MaxProjects == 2
MaxHist == 1
\* the day on which the requests are served
StartDay == 1

\* today + timedelta(days=7)
DueWindow == 7

None == [k |-> "none", day |-> 0, padded |-> TRUE]

Audiences == {"users", "developers", "management"}

(***************************************************************************)
(* Dates                                                                   *)
(***************************************************************************)
\* date.strftime('%Y-%m-%d')
strftime(d) == [k |-> "date", day |-> d, padded |-> TRUE]

\* datetime.strptime(s, '%Y-%m-%d').date()
strptime(s) ==
    IF s.k = "none" THEN [exc |-> "TypeError", val |-> 0]
    ELSE IF s.k = "text" THEN [exc |-> "ValueError", val |-> 0]
    ELSE [exc |-> "none", val |-> s.day]

\* Python truth value of a string or None
Truthy(s) == s.k # "none"

(***************************************************************************)
(* Planned communications and plans                                        *)
(***************************************************************************)
\* comm.get(key) for the three keys the code reads with .get
GetDate(comm) == IF "target_date" \in comm.keys THEN comm.target_date ELSE None
GetAudiences(comm) == IF "audiences" \in comm.keys THEN comm.audiences ELSE <<>>
GetStatus(comm) == IF "status" \in comm.keys THEN comm.status ELSE "None"

Comm(date, auds, status, keys) ==
    [keys |-> keys, target_date |-> date, audiences |-> auds, status |-> status]

AllKeys == {"target_date", "audiences", "status", "type", "reason"}

\* A comms_plan value. t = "dict": a JSON object, whose planned_communications
\* is a list (pc = "list"), absent (pc = "absent") or no list (pc = "scalar");
\* t = "other": a JSON value that is no object (a list, a string, a number).
Plan(gen, planned) ==
    [t |-> "dict", pc |-> "list", generated_date |-> gen, planned |-> planned]
NonDictPlan == [t |-> "other", pc |-> "absent", generated_date |-> None, planned |-> <<>>]
\* None and the other JSON values Python takes for false ({}, [], 0, "", null)
FalsyJson == [t |-> "falsy"]

(***************************************************************************)
(* The store                                                               *)
(***************************************************************************)
ProjectIds(data) == {data[i].id : i \in DOMAIN data}

\* get_project_by_id: the index of the first project with that id, 0 for None
FindProject(data, project_id) ==
    IF \E i \in DOMAIN data : data[i].id = project_id
    THEN CHOOSE i \in DOMAIN data :
            /\ data[i].id = project_id
            /\ \A j \in DOMAIN data : data[j].id = project_id => i <= j
    ELSE 0

\* comms_plan.get('planned_communications', []) followed by the iteration of
\* the result: a value that is no object has no .get, a scalar is not iterable
PlannedOf(plan) ==
    IF plan.t # "dict" THEN [exc |-> "AttributeError", val |-> <<>>]
    ELSE IF plan.pc = "scalar" THEN [exc |-> "TypeError", val |-> <<>>]
    ELSE IF plan.pc = "absent" THEN [exc |-> "none", val |-> <<>>]
    ELSE [exc |-> "none", val |-> plan.planned]

(***************************************************************************)
(* get_due_communications                                                  *)
(***************************************************************************)
DueEntry(project, comm, days) ==
    [project_id |-> project.id, planned_comm |-> comm, days_until_due |-> days]

\* today <= target_date <= due_date
InWindowExclusiveEnd(target, day) == day <= target /\ target < day + DueWindow
InWindow(target, day) == day <= target /\ target <= day + DueWindow

\* the inner loop over one project's planned communications
RECURSIVE ScanPlanned(_, _, _, _)
RECURSIVE ScanPlannedSentToo(_, _, _, _)
ScanPlannedSentToo(project, planned, day, acc) ==
    IF planned = <<>> THEN [exc |-> "none", val |-> acc]
    ELSE
      LET comm == Head(planned)
          rest == Tail(planned)
      IN  IF GetStatus(comm) \notin {"pending", "sent"}
          THEN ScanPlannedSentToo(project, rest, day, acc)
          ELSE IF "target_date" \notin comm.keys
               THEN ScanPlannedSentToo(project, rest, day, acc)
          ELSE LET parsed == strptime(comm.target_date)
               IN  IF parsed.exc = "ValueError"
                   THEN ScanPlannedSentToo(project, rest, day, acc)
                   ELSE IF parsed.exc # "none"
                   THEN [exc |-> parsed.exc, val |-> acc]
                   ELSE IF InWindow(parsed.val, day)
                   THEN ScanPlannedSentToo(project, rest, day,
                            Append(acc, DueEntry(project, comm, parsed.val - day)))
                   ELSE ScanPlannedSentToo(project, rest, day, acc)
ScanPlanned(project, planned, day, acc) ==
    IF planned = <<>> THEN [exc |-> "none", val |-> acc]
    ELSE
      LET comm == Head(planned)
          rest == Tail(planned)
      IN  IF GetStatus(comm) # "pending" THEN ScanPlanned(project, rest, day, acc)
          ELSE IF "target_date" \notin comm.keys
               THEN ScanPlanned(project, rest, day, acc)          \* KeyError, caught
          ELSE LET parsed == strptime(comm.target_date)
               IN  IF parsed.exc = "ValueError"
                   THEN ScanPlanned(project, rest, day, acc)      \* caught
                   ELSE IF parsed.exc # "none"
                   THEN [exc |-> parsed.exc, val |-> acc]         \* not caught
                   ELSE IF InWindow(parsed.val, day)
                   THEN ScanPlanned(project, rest, day,
                            Append(acc, DueEntry(project, comm, parsed.val - day)))
                   ELSE ScanPlanned(project, rest, day, acc)

\* the outer loop over the projects
RECURSIVE ScanProjects(_, _, _)
ScanProjects(projects, day, acc) ==
    IF projects = <<>> THEN [exc |-> "none", val |-> acc]
    ELSE
      LET project == Head(projects)
          planned == PlannedOf(project.comms_plan)
      IN  IF planned.exc # "none" THEN [exc |-> planned.exc, val |-> acc]
          ELSE LET inner == ScanPlanned(project, planned.val, day, acc)
               IN  IF inner.exc # "none" THEN inner
                   ELSE ScanProjects(Tail(projects), day, inner.val)

\* list.sort(key=lambda x: x['days_until_due']) is stable: an element goes
\* after every element whose key is not greater
RECURSIVE InsertByDays(_, _)
InsertBeforeEqual(sorted, x) ==
    IF sorted = <<>> THEN <<x>>
    ELSE IF Head(sorted).days_until_due < x.days_until_due
         THEN <<Head(sorted)>> \o InsertByDays(Tail(sorted), x)
         ELSE <<x>> \o sorted
InsertByDays(sorted, x) ==
    IF sorted = <<>> THEN <<x>>
    ELSE IF Head(sorted).days_until_due <= x.days_until_due
         THEN <<Head(sorted)>> \o InsertByDays(Tail(sorted), x)
         ELSE <<x>> \o sorted

RECURSIVE SortByDays(_)
SortByDays(s) ==
    IF s = <<>> THEN <<>>
    ELSE InsertByDays(SortByDays(SubSeq(s, 1, Len(s) - 1)), s[Len(s)])

get_due_communications(data, day) ==
    LET scan == ScanProjects(data, day, <<>>)
    IN  IF scan.exc # "none" THEN scan
        ELSE [exc |-> "none", val |-> SortByDays(scan.val)]

(***************************************************************************)
(* The LLM's response and its parsing                                      *)
(***************************************************************************)
\* A response text is [form, value]: form = "json" when the whole text is
\* JSON with that value, "embedded" when prose surrounds one JSON object,
\* "garbage" when no JSON can be found in it, "deep" when it is JSON nested
\* beyond the interpreter's recursion limit.
Response(form, value) == [form |-> form, value |-> value]

\* _extract_json_from_response: json.loads, then the regex \{.*\}; only
\* json.JSONDecodeError is caught, a RecursionError propagates. A returned
\* None is FalsyJson: the callers only test `not data`.
_extract_json_from_response(r) ==
    IF r.form = "deep" THEN [exc |-> "RecursionError", val |-> FalsyJson]
    ELSE IF r.form \in {"json", "embedded"} THEN [exc |-> "none", val |-> r.value]
    ELSE [exc |-> "none", val |-> FalsyJson]

(***************************************************************************)
(* generate_comms_plan                                                     *)
(***************************************************************************)
\* range(2, 13, 3)
FallbackWeeksFromOne == <<1, 4, 7, 10>>
FallbackWeeks == <<2, 5, 8, 11>>
FallbackMonths == <<1, 2, 3>>

\* _generate_fallback_plan
_generate_fallback_plan(project, day) ==
    LET weekly == [i \in DOMAIN FallbackWeeks |->
                     Comm(strftime(day + 7 * FallbackWeeks[i]), <<"developers">>,
                          "pending", AllKeys)]
        monthly == [i \in DOMAIN FallbackMonths |->
                     Comm(strftime(day + 30 * FallbackMonths[i]), <<"management">>,
                          "pending", AllKeys)]
    IN  Plan(strftime(day),
             IF project.status = "active" THEN weekly \o monthly ELSE <<>>)

\* lines 158-164: load, assign the plan to the project, save
StorePlan(data, project_id, plan_data) ==
    LET i == FindProject(data, project_id)
    IN  IF i = 0 THEN data ELSE [data EXCEPT ![i].comms_plan = plan_data]

\* The whole call. kind = "error": {"error": "Project not found"};
\* kind = "plan": the plan returned. data is what the file holds afterwards.
generate_comms_plan(data, project_id, response, day) ==
    LET i == FindProject(data, project_id)
        parsed == _extract_json_from_response(response)
    IN  IF i = 0 THEN [kind |-> "error", plan |-> FalsyJson, data |-> data, path |-> "none"]
        ELSE IF parsed.exc # "none"
        THEN \* except Exception: return the fallback plan, nothing is saved
             [kind |-> "plan", plan |-> _generate_fallback_plan(data[i], day),
              path |-> "except", data |-> data]
        ELSE LET plan_data == IF parsed.val.t = "falsy"
                              THEN _generate_fallback_plan(data[i], day)
                              ELSE parsed.val
             IN  [kind |-> "plan", plan |-> plan_data,
                  path |-> IF parsed.val.t = "falsy" THEN "fallback" ELSE "llm",
                  data |-> StorePlan(data, project_id, plan_data)]

(***************************************************************************)
(* generate_email_draft                                                    *)
(***************************************************************************)
\* No planned_comm argument (None, or an empty object: `not planned_comm`)
NoComm == [keys |-> {}, target_date |-> None, audiences |-> <<>>, status |-> "None"]

\* What the LLM can put in a draft object, and what the code adds to it
DraftValue(keys) ==
    [t |-> "dict", keys |-> keys, audience |-> "None", project_id |-> 0,
     planned_comm_id |-> None]
NonDictDraft ==
    [t |-> "other", keys |-> {}, audience |-> "None", project_id |-> 0,
     planned_comm_id |-> None]

\* _generate_fallback_draft: subject, body, key_points, audience, draft_id
_generate_fallback_draft(project, audience, planned_comm) ==
    [t |-> "dict", keys |-> {"subject", "body", "key_points", "audience", "draft_id"},
     audience |-> audience, project_id |-> 0, planned_comm_id |-> None]

\* lines 331-334
TagDraftWithoutAudience(draft_data, audience, project_id, planned_comm_id, planned_comm) ==
    [draft_data EXCEPT
        !.keys = @ \cup {"project_id", "planned_comm_id", "draft_id"},
        !.project_id = project_id,
        !.planned_comm_id = IF Truthy(planned_comm_id) THEN planned_comm_id
                            ELSE GetDate(planned_comm)]
TagDraft(draft_data, audience, project_id, planned_comm_id, planned_comm) ==
    [draft_data EXCEPT
        !.keys = @ \cup {"audience", "project_id", "planned_comm_id", "draft_id"},
        !.audience = audience,
        !.project_id = project_id,
        !.planned_comm_id = IF Truthy(planned_comm_id) THEN planned_comm_id
                            ELSE GetDate(planned_comm)]

\* the body of the loop for one audience: the draft appended, and the path
DraftFor(project, project_id, planned_comm_id, planned_comm, audience, response) ==
    LET parsed == _extract_json_from_response(response)
    IN  IF parsed.exc # "none"
        THEN [path |-> "except",
              draft |-> _generate_fallback_draft(project, audience, planned_comm)]
        ELSE IF parsed.val.t = "falsy"
        THEN [path |-> "fallback",
              draft |-> TagDraft(_generate_fallback_draft(project, audience, planned_comm),
                                 audience, project_id, planned_comm_id, planned_comm)]
        ELSE IF parsed.val.t # "dict"
        THEN \* draft_data['audience'] = audience raises TypeError
             [path |-> "except",
              draft |-> _generate_fallback_draft(project, audience, planned_comm)]
        ELSE [path |-> "llm",
              draft |-> TagDraft(parsed.val, audience, project_id, planned_comm_id,
                                 planned_comm)]

\* lines 232-236: the first planned communication whose target_date is the id
RECURSIVE FindPlanned(_, _)
FindPlanned(planned, planned_comm_id) ==
    IF planned = <<>> THEN NoComm
    ELSE IF GetDate(Head(planned)) = planned_comm_id THEN Head(planned)
    ELSE FindPlanned(Tail(planned), planned_comm_id)

\* lines 232-236 for a project that exists: the planned communication the
\* drafts are written for (NoComm: none found, or the lookup raised)
SelectedComm(project, planned_comm_id, planned_comm) ==
    LET planned == PlannedOf(project.comms_plan)
    IN  IF planned_comm # NoComm THEN planned_comm
        ELSE IF planned.exc # "none" THEN NoComm
        ELSE FindPlanned(planned.val, planned_comm_id)

\* The whole call; responses[i] is what self.run returns for the i-th audience.
\* kind = "error": a list holding one error object; kind = "drafts": the drafts;
\* kind = "raise": an exception leaves the function.
generate_email_draft(data, project_id, planned_comm_id, planned_comm, responses) ==
    LET i == FindProject(data, project_id)
        Out(kind, error, drafts, paths) ==
            [kind |-> kind, error |-> error, drafts |-> drafts, paths |-> paths]
    IN  IF i = 0 THEN Out("error", "Project not found", <<>>, <<>>)
        ELSE
          LET project == data[i]
              planned == PlannedOf(project.comms_plan)
              found == SelectedComm(project, planned_comm_id, planned_comm)
              auds == GetAudiences(found)
          IN  IF planned_comm = NoComm /\ planned.exc # "none"
              THEN Out("raise", planned.exc, <<>>, <<>>)
              ELSE IF found = NoComm
              THEN Out("error", "Planned communication not found", <<>>, <<>>)
              ELSE IF auds # <<>> /\ ~({"type", "reason"} \subseteq found.keys)
              THEN Out("raise", "KeyError", <<>>, <<>>)     \* planned_comm['type']
              ELSE
                LET each == [k \in DOMAIN auds |->
                               DraftFor(project, project_id, planned_comm_id, found,
                                        auds[k], responses[k])]
                IN  Out("drafts", "none",
                        [k \in DOMAIN auds |-> each[k].draft],
                        [k \in DOMAIN auds |-> each[k].path])

(***************************************************************************)
(* update_comms_history                                                    *)
(***************************************************************************)
\* comm_data: the keys of it that the code's control flow reads
CommData(audience, date_sent, planned_comm_id) ==
    [audience |-> audience, date_sent |-> date_sent, planned_comm_id |-> planned_comm_id]

\* the entry appended to comms_history
CommEntry(comm_data) == [date_sent |-> comm_data.date_sent, audience |-> comm_data.audience]

\* lines 382-385 for one planned communication
MarkSentAnyAudience(comm, target_date, audience) ==
    IF GetDate(comm) = target_date
    THEN [comm EXCEPT !.status = "sent", !.keys = @ \cup {"status"}]
    ELSE comm
MarkSent(comm, target_date, audience) ==
    IF GetDate(comm) = target_date
       /\ \E k \in DOMAIN GetAudiences(comm) : GetAudiences(comm)[k] = audience
    THEN [comm EXCEPT !.status = "sent", !.keys = @ \cup {"status"}]
    ELSE comm

\* lines 382-385: the loop over the project's planned communications
MarkPlannedResettingOthers(planned, target_date, audience) ==
    [k \in DOMAIN planned |->
        IF MarkSent(planned[k], target_date, audience) # planned[k]
           \/ GetStatus(planned[k]) # "sent"
        THEN MarkSent(planned[k], target_date, audience)
        ELSE [planned[k] EXCEPT !.status = "pending"]]
MarkPlanned(planned, target_date, audience) ==
    [k \in DOMAIN planned |-> MarkSent(planned[k], target_date, audience)]

\* The whole call: ok = the 'success' of the answer, exc = an exception that
\* leaves the function (nothing is saved then), data = the file afterwards.
update_comms_history(data, project_id, comm_data) ==
    LET i == FindProject(data, project_id)
    IN  IF i = 0 THEN [exc |-> "none", ok |-> FALSE, data |-> data]
        ELSE
          LET project == data[i]
              target_date == comm_data.planned_comm_id
              planned == PlannedOf(project.comms_plan)
              history == Append(project.comms_history, CommEntry(comm_data))
          IN  IF ~Truthy(target_date)
              THEN [exc |-> "none", ok |-> TRUE,
                    data |-> [data EXCEPT ![i].comms_history = history]]
              ELSE IF planned.exc # "none"
              THEN [exc |-> planned.exc, ok |-> FALSE, data |-> data]
              ELSE IF project.comms_plan.pc = "absent"
              THEN [exc |-> "none", ok |-> TRUE,
                    data |-> [data EXCEPT ![i].comms_history = history]]
              ELSE [exc |-> "none", ok |-> TRUE,
                    data |-> [data EXCEPT
                        ![i].comms_history = history,
                        ![i].comms_plan.planned =
                            MarkPlanned(planned.val, target_date, comm_data.audience)]]

(***************************************************************************)
(* The routes of app.py                                                    *)
(***************************************************************************)
\* uuid4 gives an id no project has; projects are never deleted, so the
\* ids in the store are 1..Len(store). 0 is no id (None).
NoId == 0
NewId(data) == Len(data) + 1

\* create_project: the record built from the form, appended and saved
NewProject(id, status) ==
    [id |-> id, status |-> status, comms_history |-> <<>>,
     comms_plan |-> Plan(None, <<>>)]
create_project(data, id, status) == Append(data, NewProject(id, status))

\* edit_project: the first project with the id gets the form's fields
edit_project(data, project_id, status) ==
    LET i == FindProject(data, project_id)
    IN  IF i = 0 THEN data ELSE [data EXCEPT ![i].status = status]

\* generate_plan
generate_plan(data, project_id, response, day) ==
    LET r == generate_comms_plan(data, project_id, response, day)
    IN  [r EXCEPT !.kind = IF r.kind = "error" THEN "error" ELSE "plan"] @@
        [http |-> IF r.kind = "error" THEN 400 ELSE 200]

\* due_communications: 500 when the scan raises
due_communications(data, day) ==
    LET r == get_due_communications(data, day)
    IN  [http |-> IF r.exc = "none" THEN 200 ELSE 500, exc |-> r.exc, val |-> r.val]

\* what request.json.get(field) gives for a posted draft
PostField(post, field, absent) ==
    IF field \notin post.keys THEN absent
    ELSE IF field = "project_id" THEN post.project_id
    ELSE IF field = "audience" THEN post.audience
    ELSE post.planned_comm_id

\* send_email: http = the status answered, data = the file afterwards
SendEmailWithoutLookup(data, post, day) ==
    LET project_id == PostField(post, "project_id", NoId)
        comm_data == CommData(PostField(post, "audience", "None"), strftime(day),
                              PostField(post, "planned_comm_id", None))
        result == update_comms_history(data, project_id, comm_data)
    IN  IF "body" \notin post.keys THEN [http |-> 500, data |-> data]
        ELSE IF result.exc # "none" THEN [http |-> 500, data |-> data]
        ELSE IF result.ok THEN [http |-> 200, data |-> result.data]
        ELSE [http |-> 500, data |-> result.data]
send_email(data, post, day) ==
    LET project_id == PostField(post, "project_id", NoId)
        comm_data == CommData(PostField(post, "audience", "None"), strftime(day),
                              PostField(post, "planned_comm_id", None))
        result == update_comms_history(data, project_id, comm_data)
    IN  IF FindProject(data, project_id) = 0 THEN [http |-> 404, data |-> data]
        ELSE IF "body" \notin post.keys
        THEN [http |-> 500, data |-> data]                 \* len(None)
        ELSE IF result.exc # "none" THEN [http |-> 500, data |-> data]
        ELSE IF result.ok THEN [http |-> 200, data |-> result.data]
        ELSE [http |-> 500, data |-> result.data]

\* add_manual_communication: comm_data has no planned_comm_id
add_manual_communication(data, project_id, audience, date_sent) ==
    LET result == update_comms_history(data, project_id,
                                       CommData(audience, date_sent, None))
    IN  IF result.exc # "none" THEN [http |-> 500, ok |-> FALSE, data |-> data]
        ELSE IF result.ok THEN [http |-> 302, ok |-> TRUE, data |-> result.data]
        ELSE [http |-> 500, ok |-> FALSE, data |-> result.data]

\* an element of request.json["communications"]; NoId and NoComm stand for a
\* key that is absent, null or empty
CommItem(project_id, planned_comm) ==
    [project_id |-> project_id, planned_comm |-> planned_comm]

\* {"error": ...}, the one element of the list generate_email_draft returns
\* when it finds no project or no planned communication
ErrorObject(error) ==
    [t |-> "dict", keys |-> {"error"}, audience |-> "None", project_id |-> 0,
     planned_comm_id |-> None, error |-> error]

\* generate_drafts, the loop: all_drafts after the items from place n on
RECURSIVE ExtendDrafts(_, _, _, _, _)
ExtendDrafts(data, selected, n, responses, all_drafts) ==
    IF n > Len(selected) THEN [exc |-> "none", val |-> all_drafts]
    ELSE
      LET comm_item == selected[n]
          drafts == generate_email_draft(data, comm_item.project_id, None,
                                         comm_item.planned_comm, responses)
      IN  IF comm_item.project_id = NoId \/ comm_item.planned_comm = NoComm
          THEN ExtendDrafts(data, selected, n + 1, responses, all_drafts)
          ELSE IF drafts.kind = "raise" THEN [exc |-> drafts.error, val |-> <<>>]
          ELSE IF drafts.kind = "error"
          THEN ExtendDrafts(data, selected, n + 1, responses,
                            Append(all_drafts, ErrorObject(drafts.error)))
          ELSE ExtendDrafts(data, selected, n + 1, responses,
                            all_drafts \o drafts.drafts)

\* generate_drafts: count is the N of the message 'Generated N draft(s)';
\* responses[k] is what the LLM answers for the k-th audience of an item
generate_drafts(data, selected, responses) ==
    LET r == ExtendDrafts(data, selected, 1, responses, <<>>)
    IN  IF r.exc # "none"
        THEN [http |-> 500, success |-> FALSE, drafts |-> <<>>, count |-> 0]
        ELSE [http |-> 200, success |-> TRUE, drafts |-> r.val, count |-> Len(r.val)]

(***************************************************************************)
(* Inputs: what the LLM answers and what a client posts                    *)
(***************************************************************************)
Padded(d) == strftime(d)
Unpadded(d) == [k |-> "date", day |-> d, padded |-> FALSE]
BadText == [k |-> "text", day |-> 0, padded |-> TRUE]

c1ud == Comm(Padded(1), <<"users", "developers">>, "pending", AllKeys)
c1d == Comm(Unpadded(1), <<"developers">>, "pending", AllKeys)
c1u == Comm(Padded(1), <<"users">>, "pending", AllKeys)
c8u == Comm(Padded(8), <<"users">>, "pending", AllKeys)
c0u == Comm(Padded(0), <<"users">>, "pending", AllKeys)
c9m == Comm(Padded(9), <<"management">>, "pending", AllKeys)
cSent == Comm(Padded(1), <<"users">>, "sent", AllKeys)
cNoDate == Comm(None, <<"users">>, "pending", AllKeys \ {"target_date"})
cBadDate == Comm(BadText, <<"users">>, "pending", AllKeys)
cNullDate == Comm(None, <<"users">>, "pending", AllKeys)
cNoAudiences == Comm(Padded(1), <<>>, "pending", AllKeys \ {"audiences"})
cNoStatus == Comm(Padded(1), <<"users">>, "None", AllKeys \ {"status"})
cNoType == Comm(Padded(8), <<"users">>, "pending", AllKeys \ {"type"})

\* planned_communications lists an LLM may answer
PlanSortTies == <<c8u, c1ud, c1d>>
PlanSkips == <<c0u, c9m, cNoDate, cBadDate, c1u>>
PlanLoose == <<cNoStatus, cNoAudiences, cNoType>>
PlanNullDate == <<cNullDate>>
LLMPlanned == {PlanSortTies, PlanSkips, PlanLoose, PlanNullDate}

PlanResponses ==
    { Response("json", Plan(Padded(0), p)) : p \in LLMPlanned }
    \cup { Response("embedded", Plan(Padded(0), PlanSortTies)),
           Response("json", NonDictPlan),
           Response("json", FalsyJson),
           Response("garbage", FalsyJson),
           Response("deep", FalsyJson) }

DraftOk == DraftValue({"subject", "body", "key_points"})
DraftResponses ==
    { Response("json", DraftOk),
      Response("json", NonDictDraft),
      Response("garbage", FalsyJson),
      Response("deep", FalsyJson) }

Statuses == {"active", "planning"}

\* ids a request may name: those the store can hold and one it never holds
RequestIds == 1 .. MaxProjects + 1

\* planned communications a client may send: those of the stored plans,
\* one that is in no plan, and none
StoredComms(data) ==
    UNION { IF PlannedOf(data[i].comms_plan).exc = "none"
            THEN {PlannedOf(data[i].comms_plan).val[k] :
                    k \in DOMAIN PlannedOf(data[i].comms_plan).val}
            ELSE {} : i \in DOMAIN data }

ClientDates == {None, Padded(1), Unpadded(1)}
PostedDates == {None, Padded(1)}

\* drafts a client may post to /send-email besides those it was given
ClientPost(keys, audience, project_id, planned_comm_id) ==
    [DraftValue(keys) EXCEPT !.audience = audience, !.project_id = project_id,
                             !.planned_comm_id = planned_comm_id]
PostKeys == {"subject", "body", "audience", "project_id", "planned_comm_id"}
ClientPosts ==
    { ClientPost(PostKeys, a, id, d) :
        a \in {"users", "developers"}, id \in 1 .. MaxProjects, d \in ClientDates }
    \cup { ClientPost(PostKeys, "users", MaxProjects + 1, Padded(1)),
           ClientPost(PostKeys \ {"body"}, "users", 1, Padded(1)) }

TotalHistory(data) ==
    LET RECURSIVE Sum(_)
        Sum(s) == IF s = <<>> THEN 0 ELSE Len(Head(s).comms_history) + Sum(Tail(s))
    IN  Sum(data)

(***************************************************************************)
(* The state machine with one request at a time                            *)
(***************************************************************************)
\* Flask serves each request in a thread of its own: two handlers at a time
Idle == [pc |-> "idle"]
Workers == {1, 2}
NoRequests == [w |-> [x \in Workers |-> Idle], n |-> 0, lost |-> Idle]

Init ==
    /\ store = <<>>
    /\ today = StartDay
    /\ call = [op |-> "none"]
    /\ ret = [kind |-> "none"]
    /\ req = NoRequests

CreateProject ==
    /\ Len(store) < MaxProjects
    /\ \E status \in Statuses :
        /\ store' = create_project(store, NewId(store), status)
        /\ call' = [op |-> "create_project", status |-> status]
        /\ ret' = [http |-> 302, project_id |-> NewId(store)]
    /\ UNCHANGED <<today, req>>

EditProject ==
    /\ \E project_id \in RequestIds, status \in Statuses :
        /\ store' = edit_project(store, project_id, status)
        /\ call' = [op |-> "edit_project", project_id |-> project_id, status |-> status]
        /\ ret' = [http |-> 302]
    /\ UNCHANGED <<today, req>>

GeneratePlan ==
    /\ \E project_id \in RequestIds, response \in PlanResponses :
        LET r == generate_plan(store, project_id, response, today)
        IN  /\ store' = r.data
            /\ call' = [op |-> "generate_comms_plan", project_id |-> project_id]
            /\ ret' = [kind |-> r.kind, plan |-> r.plan, path |-> r.path, http |-> r.http]
    /\ UNCHANGED <<today, req>>

DueCommunications ==
    /\ call' = [op |-> "get_due_communications"]
    /\ ret' = due_communications(store, today)
    /\ UNCHANGED <<store, today, req>>

\* the arguments of a call: an entry of the due list (what /generate-drafts
\* is given), a planned communication that is in no plan, a planned_comm_id
DueNow(data, day) ==
    LET r == get_due_communications(data, day)
    IN  IF r.exc = "none" THEN {r.val[k] : k \in DOMAIN r.val} ELSE {}
DraftArgs(data, day) ==
    { [project_id |-> e.project_id, planned_comm_id |-> None,
       planned_comm |-> e.planned_comm] : e \in DueNow(data, day) }
    \cup { [project_id |-> id, planned_comm_id |-> None, planned_comm |-> c9m] :
             id \in {1, MaxProjects + 1} }
    \cup { [project_id |-> 1, planned_comm_id |-> d, planned_comm |-> NoComm] :
             d \in PostedDates }

\* the audiences self.run is asked about in that call
AudiencesAsked(data, args) ==
    LET i == FindProject(data, args.project_id)
    IN  IF i = 0 THEN <<>>
        ELSE GetAudiences(SelectedComm(data[i], args.planned_comm_id, args.planned_comm))

GenerateEmailDraft ==
    /\ \E args \in DraftArgs(store, today) :
        \E responses \in [DOMAIN AudiencesAsked(store, args) -> DraftResponses] :
            /\ call' = [op |-> "generate_email_draft"] @@ args
            /\ ret' = generate_email_draft(store, args.project_id, args.planned_comm_id,
                                           args.planned_comm, responses)
    /\ UNCHANGED <<store, today, req>>

SendEmail ==
    /\ \E post \in ClientPosts \cup
                  (IF call.op = "generate_email_draft"
                   THEN {ret.drafts[k] : k \in DOMAIN ret.drafts} ELSE {}) :
        LET r == send_email(store, post, today)
        IN  /\ TotalHistory(r.data) <= MaxHist
            /\ store' = r.data
            /\ call' = [op |-> "send_email", post |-> post]
            /\ ret' = [http |-> r.http]
    /\ UNCHANGED <<today, req>>

AddManualCommunication ==
    /\ \E project_id \in RequestIds, audience \in {"users"} :
        LET r == add_manual_communication(store, project_id, audience, strftime(today))
        IN  /\ TotalHistory(r.data) <= MaxHist
            /\ store' = r.data
            /\ call' = [op |-> "add_manual_communication", project_id |-> project_id,
                        audience |-> audience]
            /\ ret' = [http |-> r.http, success |-> r.ok]
    /\ UNCHANGED <<today, req>>

Next ==
    \/ CreateProject
    \/ EditProject
    \/ GeneratePlan
    \/ DueCommunications
    \/ GenerateEmailDraft
    \/ SendEmail
    \/ AddManualCommunication

Spec == Init /\ [][Next]_vars

(***************************************************************************)
(* The state machine with two requests at a time: every mutation is        *)
(* load_projects, a change of the loaded copy, save_projects               *)
(***************************************************************************)
MaxRequests == 4

\* what the LLM answers in these runs
ConcResponses ==
    { Response("json", Plan(Padded(0), PlanSortTies)), Response("garbage", FalsyJson) }

\* uuid4: an id that no stored project and no request in flight has
FreshId ==
    CHOOSE id \in 1 .. MaxProjects + 2 :
        /\ id \notin ProjectIds(store)
        /\ \A w \in Workers : req.w[w].pc = "idle" \/ req.w[w].project_id # id
        /\ \A other \in 1 .. MaxProjects + 2 :
            ( /\ other \notin ProjectIds(store)
              /\ \A w \in Workers : req.w[w].pc = "idle" \/ req.w[w].project_id # other )
            => id <= other

\* a request in flight: its handler, its arguments, the copy load_projects
\* gave it (data). first is the request of the other handler when that one
\* loaded the same contents and saved while this one held its copy
Request(pc, op, project_id, status, plan, comm_data, data) ==
    [pc |-> pc, op |-> op, project_id |-> project_id, status |-> status,
     plan |-> plan, comm_data |-> comm_data, data |-> data, first |-> Idle]

NoCommData == CommData("None", None, None)
NoPlan == Plan(None, <<>>)

Other(w) == CHOOSE v \in Workers : v # w

\* load_projects in handler w: the request r is in flight from now on
Load(w, r) ==
    /\ req.n < MaxRequests
    /\ req' = [req EXCEPT !.n = @ + 1, !.lost = Idle,
                          !.w[w] = [r EXCEPT !.pc = "loaded", !.data = store]]
    /\ UNCHANGED <<store, today, call, ret>>

\* create_project, line 76
LoadCreate(w) ==
    /\ req.w[w].pc = "idle"
    /\ Len(store) < MaxProjects
    /\ \E status \in Statuses :
        Load(w, Request("loaded", "create_project", FreshId, status, NoPlan,
                        NoCommData, store))

\* edit_project, line 142
LoadEdit(w) ==
    /\ req.w[w].pc = "idle"
    /\ \E project_id \in ProjectIds(store), status \in Statuses :
        Load(w, Request("loaded", "edit_project", project_id, status, NoPlan,
                        NoCommData, store))

\* update_comms_history, line 358
LoadUpdate(w) ==
    /\ req.w[w].pc = "idle"
    /\ TotalHistory(store) < MaxHist
    /\ \E project_id \in ProjectIds(store), audience \in {"users", "developers"},
          d \in PostedDates :
        Load(w, Request("loaded", "update_comms_history", project_id, "none", NoPlan,
                        CommData(audience, strftime(today), d), store))

\* generate_comms_plan, lines 84-156: the project is read and the plan made
\* before the file is loaded again to be changed; the except branch returns
\* without loading
PlanRead(w) ==
    /\ req.w[w].pc = "idle"
    /\ req.n < MaxRequests
    /\ \E project_id \in ProjectIds(store), response \in ConcResponses :
        LET r == generate_comms_plan(store, project_id, response, today)
        IN  req' = [req EXCEPT
                      !.lost = Idle,
                      !.w[w] = IF r.path \in {"llm", "fallback"}
                               THEN Request("planned", "generate_comms_plan", project_id,
                                            "none", r.plan, NoCommData, <<>>)
                               ELSE Idle]
    /\ UNCHANGED <<store, today, call, ret>>

\* generate_comms_plan, line 158
LoadPlan(w) ==
    /\ req.w[w].pc = "planned"
    /\ Load(w, req.w[w])

\* what handler r makes of the file contents `data`
Handled(r, data) ==
    IF r.op = "create_project" THEN create_project(data, r.project_id, r.status)
    ELSE IF r.op = "edit_project" THEN edit_project(data, r.project_id, r.status)
    ELSE IF r.op = "generate_comms_plan" THEN StorePlan(data, r.project_id, r.plan)
    ELSE update_comms_history(data, r.project_id, r.comm_data).data

\* update_comms_history returns without save_projects when it finds no such
\* project or raises, edit_project when it finds no such project; the other
\* handlers always save
Saves(r) ==
    /\ r.op = "edit_project" => FindProject(r.data, r.project_id) # 0
    /\ r.op = "update_comms_history" =>
        LET u == update_comms_history(r.data, r.project_id, r.comm_data)
        IN  u.exc = "none" /\ u.ok

\* save_projects in handler r: the loaded copy, changed, replaces the file
SaveAfterReload(r, current) == Handled(r, current)
SaveProjects(r, current) == Handled(r, r.data)

\* the request without what it loaded
Args(r) ==
    [op |-> r.op, project_id |-> r.project_id, status |-> r.status,
     plan |-> r.plan, comm_data |-> r.comm_data]

\* save_projects in handler w, which then returns. lost records a pair of
\* mutations that both loaded before either saved, when the later one has
\* saved: first, second, and the contents both loaded (base)
Save(w) ==
    LET r == req.w[w]
        x == Other(w)
    IN  /\ r.pc = "loaded"
        /\ store' = IF Saves(r) THEN SaveProjects(r, store) ELSE store
        /\ req' = [req EXCEPT
                     !.w[w] = Idle,
                     !.w[x] = IF Saves(r) /\ @.pc = "loaded" /\ @.data = r.data
                              THEN [@ EXCEPT !.first = Args(r)]
                              ELSE @,
                     !.lost = IF Saves(r) /\ r.first # Idle
                              THEN [pc |-> "lost", first |-> r.first,
                                    second |-> Args(r), base |-> r.data]
                              ELSE Idle]
        /\ UNCHANGED <<today, call, ret>>

NextConc ==
    \E w \in Workers :
        \/ LoadCreate(w)
        \/ LoadEdit(w)
        \/ LoadUpdate(w)
        \/ PlanRead(w)
        \/ LoadPlan(w)
        \/ Save(w)

SpecConc == Init /\ [][NextConc]_vars

(***************************************************************************)
(* The state machine of the recorded communications: one request at a      *)
(* time, histories of several entries, the dashboard                       *)
(***************************************************************************)
MaxEntries == 2

\* index: the last_comm_date shown for each project
NoCommunicationsYet == [k |-> "label", day |-> 0, padded |-> TRUE]
IndexFirstEntry(data) ==
    [i \in DOMAIN data |->
        IF data[i].comms_history # <<>>
        THEN data[i].comms_history[1].date_sent
        ELSE NoCommunicationsYet]
index(data) ==
    [i \in DOMAIN data |->
        IF data[i].comms_history # <<>>
        THEN data[i].comms_history[Len(data[i].comms_history)].date_sent
        ELSE NoCommunicationsYet]

\* what the LLM answers and what the client posts in these runs
LogResponses ==
    { Response("json", Plan(Padded(0), PlanSortTies)),
      Response("json", NonDictPlan),
      Response("garbage", FalsyJson) }
LogPosts ==
    { ClientPost(PostKeys, a, id, Padded(1)) :
        a \in {"users", "developers"}, id \in 1 .. MaxProjects }

LogCreateProject ==
    /\ Len(store) < MaxProjects
    /\ store' = create_project(store, NewId(store), "active")
    /\ call' = [op |-> "create_project", status |-> "active"]
    /\ ret' = [http |-> 302, project_id |-> NewId(store)]
    /\ UNCHANGED <<today, req>>

LogEditProject ==
    /\ \E project_id \in ProjectIds(store), status \in Statuses :
        /\ store' = edit_project(store, project_id, status)
        /\ call' = [op |-> "edit_project", project_id |-> project_id, status |-> status]
        /\ ret' = [http |-> 302]
    /\ UNCHANGED <<today, req>>

LogGeneratePlan ==
    /\ \E project_id \in ProjectIds(store), response \in LogResponses :
        LET r == generate_plan(store, project_id, response, today)
        IN  /\ store' = r.data
            /\ call' = [op |-> "generate_comms_plan", project_id |-> project_id]
            /\ ret' = [kind |-> r.kind, plan |-> r.plan, path |-> r.path, http |-> r.http]
    /\ UNCHANGED <<today, req>>

LogGenerateEmailDraft ==
    /\ \E e \in DueNow(store, today) :
        LET args == [project_id |-> e.project_id, planned_comm_id |-> None,
                     planned_comm |-> e.planned_comm]
        IN  /\ call' = [op |-> "generate_email_draft"] @@ args
            /\ ret' = generate_email_draft(store, args.project_id, args.planned_comm_id,
                          args.planned_comm,
                          [k \in DOMAIN AudiencesAsked(store, args) |->
                              Response("json", DraftOk)])
    /\ UNCHANGED <<store, today, req>>

LogSendEmail ==
    /\ \E post \in LogPosts :
        LET r == send_email(store, post, today)
        IN  /\ TotalHistory(r.data) <= MaxEntries
            /\ store' = r.data
            /\ call' = [op |-> "send_email", post |-> post]
            /\ ret' = [http |-> r.http]
    /\ UNCHANGED <<today, req>>

\* the form gives a date_sent of its own
LogAddManualCommunication ==
    /\ \E project_id \in 1 .. MaxProjects :
        LET r == add_manual_communication(store, project_id, "management", Padded(0))
        IN  /\ TotalHistory(r.data) <= MaxEntries
            /\ store' = r.data
            /\ call' = [op |-> "add_manual_communication", project_id |-> project_id,
                        audience |-> "management", date_sent |-> Padded(0)]
            /\ ret' = [http |-> r.http, success |-> r.ok]
    /\ UNCHANGED <<today, req>>

Index ==
    /\ call' = [op |-> "index"]
    /\ ret' = [http |-> 200, last_comm_date |-> index(store)]
    /\ UNCHANGED <<store, today, req>>

NextLog ==
    \/ LogCreateProject
    \/ LogEditProject
    \/ LogGeneratePlan
    \/ DueCommunications
    \/ LogGenerateEmailDraft
    \/ LogSendEmail
    \/ LogAddManualCommunication
    \/ Index

SpecLog == Init /\ [][NextLog]_vars

(***************************************************************************)
(* The state machine of the fallback plan: any day, any project status,    *)
(* responses that cannot be used                                           *)
(***************************************************************************)
MaxDay == 12

\* what the status field of the project form can hold
FormStatuses == {"planning", "active", "completed"}

\* responses after which generate_comms_plan uses _generate_fallback_plan,
\* and one it stores as it is
UnusableResponses ==
    { Response("garbage", FalsyJson), Response("json", FalsyJson),
      Response("deep", FalsyJson) }
FallbackResponses ==
    UnusableResponses \cup { Response("json", Plan(Padded(0), PlanSortTies)) }

InitFallback ==
    /\ store = <<>>
    /\ today \in 1 .. MaxDay
    /\ call = [op |-> "none"]
    /\ ret = [kind |-> "none"]
    /\ req = NoRequests

FallbackCreateProject ==
    /\ Len(store) < MaxProjects
    /\ \E status \in FormStatuses :
        /\ store' = create_project(store, NewId(store), status)
        /\ call' = [op |-> "create_project", status |-> status]
        /\ ret' = [http |-> 302, project_id |-> NewId(store)]
    /\ UNCHANGED <<today, req>>

FallbackGeneratePlan ==
    /\ \E project_id \in ProjectIds(store), response \in FallbackResponses :
        LET r == generate_plan(store, project_id, response, today)
        IN  /\ store' = r.data
            /\ call' = [op |-> "generate_comms_plan", project_id |-> project_id]
            /\ ret' = [kind |-> r.kind, plan |-> r.plan, path |-> r.path, http |-> r.http]
    /\ UNCHANGED <<today, req>>

NextFallback ==
    \/ FallbackCreateProject
    \/ FallbackGeneratePlan
    \/ DueCommunications

SpecFallback == InitFallback /\ [][NextFallback]_vars

(***************************************************************************)
(* The state machine of /generate-drafts                                   *)
(***************************************************************************)
MaxSelected == 2
MaxAudiences == 2

\* what the LLM answers in these runs
ReviewPlanResponses ==
    { Response("json", Plan(Padded(0), PlanSortTies)),
      Response("json", Plan(Padded(0), PlanLoose)) }
ReviewDraftResponses ==
    { Response("json", DraftOk), Response("json", NonDictDraft),
      Response("garbage", FalsyJson) }

\* what the page can post: entries of the due list, an entry whose project is
\* not in the store, and entries lacking project_id or planned_comm
SelectableItems(data, day) ==
    { CommItem(e.project_id, e.planned_comm) : e \in DueNow(data, day) }
    \cup { CommItem(MaxProjects + 1, c9m), CommItem(NoId, c9m), CommItem(1, NoComm) }
Selections(data, day) ==
    UNION { [1 .. n -> SelectableItems(data, day)] : n \in 0 .. MaxSelected }

ReviewCreateProject ==
    /\ Len(store) < MaxProjects
    /\ store' = create_project(store, NewId(store), "active")
    /\ call' = [op |-> "create_project", status |-> "active"]
    /\ ret' = [http |-> 302, project_id |-> NewId(store)]
    /\ UNCHANGED <<today, req>>

ReviewGeneratePlan ==
    /\ \E project_id \in ProjectIds(store), response \in ReviewPlanResponses :
        LET r == generate_plan(store, project_id, response, today)
        IN  /\ store' = r.data
            /\ call' = [op |-> "generate_comms_plan", project_id |-> project_id]
            /\ ret' = [kind |-> r.kind, plan |-> r.plan, path |-> r.path, http |-> r.http]
    /\ UNCHANGED <<today, req>>

GenerateDrafts ==
    /\ \E selected \in Selections(store, today),
          responses \in [1 .. MaxAudiences -> ReviewDraftResponses] :
        /\ call' = [op |-> "generate_drafts", selected |-> selected]
        /\ ret' = generate_drafts(store, selected, responses)
    /\ UNCHANGED <<store, today, req>>

NextReview ==
    \/ ReviewCreateProject
    \/ ReviewGeneratePlan
    \/ GenerateDrafts

SpecReview == Init /\ [][NextReview]_vars

(***************************************************************************)
(* Properties                                                              *)
(***************************************************************************)
Range(s) == {s[k] : k \in DOMAIN s}

\* a planned communication that is due: pending, with a target date that
\* parses and lies in today .. today + 7
IsDue(comm, day) ==
    /\ "status" \in comm.keys /\ comm.status = "pending"
    /\ "target_date" \in comm.keys /\ comm.target_date.k = "date"
    /\ comm.target_date.day - day \in 0 .. 7

\* the places <<project index, plan index>> of the due communications
DuePositions(data, day) ==
    UNION { { <<i, k>> : k \in { n \in DOMAIN data[i].comms_plan.planned :
                                   IsDue(data[i].comms_plan.planned[n], day) } } :
            i \in DOMAIN data }

DueReturned == call.op = "get_due_communications" /\ ret.exc = "none"

\* C1: get_due_communications returns exactly one entry for every planned
\* communication, over all projects, that is pending with a target date in
\* today .. today + 7, and no entry for any other planned communication.
C1_DueExactlyThePending ==
    DueReturned =>
        /\ Len(ret.val) = Cardinality(DuePositions(store, today))
        /\ \A e \in Range(ret.val) :
             \E pos \in DuePositions(store, today) :
                /\ store[pos[1]].id = e.project_id
                /\ store[pos[1]].comms_plan.planned[pos[2]] = e.planned_comm
        /\ \A pos \in DuePositions(store, today) :
             LET id == store[pos[1]].id
                 comm == store[pos[1]].comms_plan.planned[pos[2]]
             IN  Cardinality({ j \in DOMAIN ret.val :
                                 /\ ret.val[j].project_id = id
                                 /\ ret.val[j].planned_comm = comm })
                 = Cardinality({ q \in DuePositions(store, today) :
                                 /\ store[q[1]].id = id
                                 /\ store[q[1]].comms_plan.planned[q[2]] = comm })

\* a scan over two projects that returns the communications at today and at
\* today + 7 and leaves out a sent one, a past one and one 8 days ahead
C1_Witness ==
    /\ DueReturned
    /\ \E a, b \in Range(ret.val) :
        /\ a.project_id # b.project_id
        /\ a.days_until_due = 0
        /\ b.days_until_due = DueWindow
    /\ \E i \in DOMAIN store : \E c \in Range(store[i].comms_plan.planned) :
        GetStatus(c) = "sent" /\ c.target_date.day = today
    /\ \E i \in DOMAIN store : \E c \in Range(store[i].comms_plan.planned) :
        GetStatus(c) = "pending" /\ c.target_date.k = "date" /\ c.target_date.day < today
    /\ \E i \in DOMAIN store : \E c \in Range(store[i].comms_plan.planned) :
        GetStatus(c) = "pending" /\ c.target_date.day = today + DueWindow + 1

\* the due communications in the order of the store: project by project,
\* and within a project in the order of its plan
RECURSIVE DueOfPlan(_, _, _)
DueOfPlan(project, k, day) ==
    IF k > Len(project.comms_plan.planned) THEN <<>>
    ELSE (IF IsDue(project.comms_plan.planned[k], day)
          THEN <<[project_id |-> project.id,
                  planned_comm |-> project.comms_plan.planned[k]]>>
          ELSE <<>>) \o DueOfPlan(project, k + 1, day)
RECURSIVE DueInStoreOrder(_, _, _)
DueInStoreOrder(data, i, day) ==
    IF i > Len(data) THEN <<>>
    ELSE DueOfPlan(data[i], 1, day) \o DueInStoreOrder(data, i + 1, day)

\* the elements of s whose days_until_due is d, in the order of s
RECURSIVE WithDays(_, _)
WithDays(s, d) ==
    IF s = <<>> THEN <<>>
    ELSE (IF Head(s).planned_comm.target_date.day - today = d
          THEN <<[project_id |-> Head(s).project_id,
                  planned_comm |-> Head(s).planned_comm]>>
          ELSE <<>>) \o WithDays(Tail(s), d)

\* C10: the list returned by get_due_communications is sorted by due date:
\* days_until_due is target_date minus today and lies in 0..7, the entries are
\* in non-decreasing days_until_due, and entries with equal days_until_due
\* keep the order of the store (project order, then plan order).
C10_DueSortedStable ==
    DueReturned =>
        /\ \A j \in DOMAIN ret.val :
            /\ ret.val[j].days_until_due =
                   ret.val[j].planned_comm.target_date.day - today
            /\ ret.val[j].days_until_due \in 0 .. 7
        /\ \A j \in DOMAIN ret.val : \A n \in DOMAIN ret.val :
            j < n => ret.val[j].days_until_due <= ret.val[n].days_until_due
        /\ \A d \in 0 .. 7 :
            WithDays(ret.val, d) = WithDays(DueInStoreOrder(store, 1, today), d)

\* a returned list whose first entry stands after its second in the store,
\* and in which two entries of one project and one day are followed by an
\* entry of the other project for the same day
C10_Witness ==
    /\ DueReturned
    /\ Len(ret.val) >= 4
    /\ Len(store) = 2
    /\ ret.val[1].project_id = store[1].id
    /\ ret.val[1].planned_comm = store[1].comms_plan.planned[2]
    /\ ret.val[Len(ret.val)].planned_comm = store[1].comms_plan.planned[1]
    /\ ret.val[1].planned_comm # ret.val[2].planned_comm
    /\ ret.val[2].project_id = store[1].id
    /\ ret.val[3].project_id = store[2].id
    /\ ret.val[1].days_until_due = ret.val[3].days_until_due

\* the planned communications of project i before and after a step
PlannedBefore(i) == store[i].comms_plan.planned
PlannedAfter(i) == store'[i].comms_plan.planned

\* comm is one the recorded communication <<d, a>> stands for
Matches(comm, d, a) ==
    /\ Truthy(d)
    /\ "target_date" \in comm.keys /\ comm.target_date = d
    /\ "audiences" \in comm.keys /\ a \in Range(comm.audiences)

\* update_comms_history was called for a project of the store, by send_email
\* (with the posted planned_comm_id and audience) or by
\* add_manual_communication (whose comm_data has no planned_comm_id)
UpdateCalled ==
    \/ /\ call'.op = "send_email"
       /\ "body" \in call'.post.keys
       /\ FindProject(store, PostField(call'.post, "project_id", NoId)) # 0
    \/ /\ call'.op = "add_manual_communication"
       /\ FindProject(store, call'.project_id) # 0
UpdateTarget ==
    IF call'.op = "send_email"
    THEN FindProject(store, PostField(call'.post, "project_id", NoId))
    ELSE FindProject(store, call'.project_id)
UpdateDate ==
    IF call'.op = "send_email" THEN PostField(call'.post, "planned_comm_id", None)
    ELSE None
UpdateAudience ==
    IF call'.op = "send_email" THEN PostField(call'.post, "audience", "None")
    ELSE call'.audience

\* C2: update_comms_history for an existing project with planned_comm_id d and
\* audience a sets status 'sent' on every planned communication of that
\* project whose target_date is d and whose audiences contain a, and leaves
\* every other planned communication as it was (other dates, other
\* audiences, other projects); without a planned_comm_id nothing changes.
C2_MarksOnlyTheMatching ==
    [][ UpdateCalled =>
          /\ Len(store') = Len(store)
          /\ \A i \in DOMAIN store :
              /\ store'[i].comms_plan.t = store[i].comms_plan.t
              /\ Len(PlannedAfter(i)) = Len(PlannedBefore(i))
              /\ \A k \in DOMAIN PlannedBefore(i) :
                  IF i = UpdateTarget
                     /\ Matches(PlannedBefore(i)[k], UpdateDate, UpdateAudience)
                  THEN /\ GetStatus(PlannedAfter(i)[k]) = "sent"
                       /\ PlannedAfter(i)[k].target_date = PlannedBefore(i)[k].target_date
                       /\ PlannedAfter(i)[k].audiences = PlannedBefore(i)[k].audiences
                  ELSE PlannedAfter(i)[k] = PlannedBefore(i)[k] ]_vars

\* a communication recorded for 2025-01-01/developers: the plan entry with that
\* date and audience is sent, while an entry of the same day written as
\* another string, and a matching entry of the other project, stay pending
C2_Witness ==
    /\ call.op = "send_email" /\ ret.http = 200
    /\ Len(store) = 2
    /\ call.post.planned_comm_id = Padded(1)
    /\ call.post.audience = "developers"
    /\ LET i == FindProject(store, call.post.project_id)
       IN  /\ \E c \in Range(store[i].comms_plan.planned) :
                  Matches(c, Padded(1), "developers") /\ c.status = "sent"
           /\ \E c \in Range(store[i].comms_plan.planned) :
                  c.target_date = Unpadded(1) /\ c.status = "pending"
           /\ \E n \in DOMAIN store : n # i /\
                \E c \in Range(store[n].comms_plan.planned) :
                  Matches(c, Padded(1), "developers") /\ c.status = "pending"

\* the entry of the due list that a generate_email_draft call was given
DraftedFromDueList ==
    /\ call.op = "generate_email_draft"
    /\ ret.kind = "drafts"
    /\ call.planned_comm # NoComm
    /\ \E e \in DueNow(store, today) :
        e.project_id = call.project_id /\ e.planned_comm = call.planned_comm

\* C3: for any communication listed by get_due_communications, generating its
\* drafts and then posting any one of the returned drafts to send_email
\* succeeds, appends a history entry for that draft's audience to that
\* project and marks the planned communication sent, so that a following
\* get_due_communications no longer lists it.
C3_DraftThenSendMarksSent ==
    [][ ( /\ DraftedFromDueList
          /\ call'.op = "send_email"
          /\ call'.post \in Range(ret.drafts) )
        => LET i == FindProject(store, call.project_id)
           IN  /\ ret'.http = 200
               /\ store'[i].comms_history =
                     Append(store[i].comms_history,
                            [date_sent |-> strftime(today),
                             audience |-> call'.post.audience])
               /\ ~ \E e \in DueNow(store', today) :
                        e.project_id = call.project_id
                        /\ e.planned_comm = call.planned_comm ]_vars

GenPlanReturned ==
    /\ call.op = "generate_comms_plan"
    /\ ret.kind = "plan"
    /\ FindProject(store, call.project_id) # 0

\* C4: whenever generate_comms_plan returns a plan for a project that exists,
\* the comms_plan stored for that project equals the returned plan, both when
\* the response parses and when the fallback plan is used.
C4_StoredPlanIsReturnedPlan ==
    GenPlanReturned =>
        store[FindProject(store, call.project_id)].comms_plan = ret.plan

WellFormedPlan(plan) ==
    /\ plan.t = "dict"
    /\ plan.pc = "list"
    /\ \A c \in Range(plan.planned) : {"target_date", "audiences", "status"} \subseteq c.keys

\* C5: the LLM's plan is validated before it is stored: every project's stored
\* comms_plan is an object with a planned_communications list whose elements
\* each have a target_date, an audiences list and a status, so that
\* get_due_communications can always scan the store without failing.
C5_StoredPlansValidated ==
    /\ \A i \in DOMAIN store : WellFormedPlan(store[i].comms_plan)
    /\ get_due_communications(store, today).exc = "none"

DraftCall == call.op = "generate_email_draft"

\* the planned communication a generate_email_draft call writes for
CallSelected ==
    SelectedComm(store[FindProject(store, call.project_id)],
                 call.planned_comm_id, call.planned_comm)

\* C6: generate_email_draft for an existing project and a found planned
\* communication (one that has the type and reason the prompt quotes) returns
\* exactly one draft per element of its audiences list, in the same order,
\* the i-th draft's audience being the i-th audience, whether the draft came
\* from the LLM's response or from the fallback template.
C6_OneDraftPerAudience ==
    DraftCall =>
        /\ ( /\ FindProject(store, call.project_id) # 0
             /\ CallSelected # NoComm
             /\ {"type", "reason"} \subseteq CallSelected.keys )
           => ret.kind = "drafts"
        /\ ret.kind = "drafts" =>
            /\ Len(ret.drafts) = Len(GetAudiences(CallSelected))
            /\ \A k \in DOMAIN ret.drafts :
                /\ "audience" \in ret.drafts[k].keys
                /\ ret.drafts[k].audience = GetAudiences(CallSelected)[k]

\* two audiences, the first draft written by the LLM, the second from the
\* template after the LLM's answer could not be used
C6_Witness ==
    /\ DraftCall /\ ret.kind = "drafts"
    /\ GetAudiences(CallSelected) = <<"users", "developers">>
    /\ ret.paths = <<"llm", "except">>

\* C7: every draft returned by generate_email_draft carries the project_id of
\* the requested project, planned_comm_id equal to the given planned_comm_id
\* or else the planned communication's target_date, an audience and a
\* draft_id, on every path (LLM output parsed, template fallback, exception).
C7_DraftsIdentifyTheirComm ==
    (DraftCall /\ ret.kind = "drafts") =>
        \A k \in DOMAIN ret.drafts :
            /\ {"project_id", "planned_comm_id", "audience", "draft_id"}
                   \subseteq ret.drafts[k].keys
            /\ ret.drafts[k].project_id = call.project_id
            /\ ret.drafts[k].planned_comm_id =
                   (IF Truthy(call.planned_comm_id) THEN call.planned_comm_id
                    ELSE GetDate(CallSelected))

\* C9: an operation naming a project id that is not in the store reports an
\* error and leaves the store unchanged: generate_comms_plan returns the
\* 'Project not found' error (route: 400), update_comms_history returns
\* success False without saving, send_email answers 404 before any history
\* entry is created, generate_email_draft returns a single error object.
C9_UnknownProjectChangesNothing ==
    [][ /\ ( /\ call'.op = "generate_comms_plan"
             /\ FindProject(store, call'.project_id) = 0 )
           => (ret'.kind = "error" /\ ret'.http = 400 /\ store' = store)
        /\ ( /\ call'.op = "add_manual_communication"
             /\ FindProject(store, call'.project_id) = 0 )
           => (~ret'.success /\ ret'.http = 500 /\ store' = store)
        /\ ( /\ call'.op = "send_email"
             /\ FindProject(store, PostField(call'.post, "project_id", NoId)) = 0 )
           => (ret'.http = 404 /\ store' = store)
        /\ ( /\ call'.op = "generate_email_draft"
             /\ FindProject(store, call'.project_id) = 0 )
           => ( /\ ret'.kind = "error" /\ ret'.error = "Project not found"
                /\ ret'.drafts = <<>> /\ store' = store ) ]_vars

\* a draft posted for a project id that no project of a non-empty store has
C9_Witness ==
    /\ call.op = "send_email"
    /\ ret.http = 404
    /\ Len(store) = MaxProjects
    /\ call.post.project_id \notin ProjectIds(store)
    /\ call.post.project_id # NoId

(***************************************************************************)
(* C8                                                                      *)
(***************************************************************************)
\* the project record with that id, Idle when there is none
ProjectOf(data, project_id) ==
    IF FindProject(data, project_id) = 0 THEN Idle
    ELSE data[FindProject(data, project_id)]

\* the store when the two mutations run one after the other
Serial(l) == Handled(l.second, Handled(l.first, l.base))

\* C8: when two mutations both load before either saves, the store after the
\* later save is what the later saver alone makes of the contents both
\* loaded; the earlier saver's new project is not in the store, and when the
\* later saver changes no record of the earlier saver's project, that
\* project's record is as it was loaded (no edit, plan or history entry)
C8_LaterSaverAlone ==
    req.lost.pc = "lost" =>
        LET l == req.lost
        IN  /\ store = Handled(l.second, l.base)
            /\ l.first.op = "create_project" => l.first.project_id \notin ProjectIds(store)
            /\ ( /\ l.first.op # "create_project"
                 /\ l.second.op = "create_project" \/ l.second.project_id # l.first.project_id )
               => ProjectOf(store, l.first.project_id) = ProjectOf(l.base, l.first.project_id)

\* the later save has undone a change: two runs one after the other would
\* have left another store
C8_Witness ==
    /\ req.lost.pc = "lost"
    /\ store # Serial(req.lost)
    /\ Handled(req.lost.first, req.lost.base) # req.lost.base

(***************************************************************************)
(* C11                                                                     *)
(***************************************************************************)
\* every stored comms_plan is an object whose planned_communications is a list
PlansAreLists(data) ==
    \A i \in DOMAIN data : data[i].comms_plan.t = "dict" /\ data[i].comms_plan.pc = "list"

\* C11: in get_due_communications a pending planned communication whose
\* target_date is missing or is no valid date is skipped and the scan goes
\* on: over a store of well-shaped plans the scan returns, and what it returns
\* holds every due communication of every project.
C11_BadDatesSkipped ==
    (call.op = "get_due_communications" /\ PlansAreLists(store)) =>
        /\ ret.exc = "none"
        /\ \A pos \in DuePositions(store, today) :
             \E e \in Range(ret.val) :
                /\ e.project_id = store[pos[1]].id
                /\ e.planned_comm = store[pos[1]].comms_plan.planned[pos[2]]

(***************************************************************************)
(* C12                                                                     *)
(***************************************************************************)
\* the step is an update_comms_history that answered success
UpdateSucceeded ==
    /\ UpdateCalled
    /\ \/ call'.op = "send_email" /\ ret'.http = 200
       \/ call'.op = "add_manual_communication" /\ ret'.success

\* the history entry that step records
UpdateEntry ==
    [date_sent |-> IF call'.op = "send_email" THEN strftime(today) ELSE call'.date_sent,
     audience |-> UpdateAudience]

\* C12: comms_history is append-only. A successful update_comms_history
\* appends exactly one entry at the end of the target project's history and
\* leaves the earlier entries and the other projects' histories as they were;
\* every other step (edit_project, generate_comms_plan, create_project,
\* get_due_communications, generate_email_draft, a failed update) leaves all
\* histories as they were, a new project starting with none; and the
\* dashboard's last_comm_date is the date_sent of the last entry, that is of
\* the most recently recorded communication.
C12_HistoryAppendOnly ==
    [][ /\ Len(store') >= Len(store)
        /\ \A i \in DOMAIN store :
             store'[i].comms_history =
                 IF UpdateSucceeded /\ i = UpdateTarget
                 THEN Append(store[i].comms_history, UpdateEntry)
                 ELSE store[i].comms_history
        /\ \A i \in DOMAIN store' \ DOMAIN store : store'[i].comms_history = <<>>
        /\ call'.op = "index" =>
             \A i \in DOMAIN store :
                ret'.last_comm_date[i] =
                    IF store[i].comms_history = <<>> THEN NoCommunicationsYet
                    ELSE store[i].comms_history[Len(store[i].comms_history)].date_sent
        /\ UpdateSucceeded => index(store')[UpdateTarget] = UpdateEntry.date_sent ]_vars

\* the dashboard of a project with two recorded communications, the later
\* recorded one bearing the earlier date
C12_Witness ==
    /\ call.op = "index"
    /\ \E i \in DOMAIN store :
        /\ Len(store[i].comms_history) = 2
        /\ store[i].comms_history[1].date_sent = Padded(1)
        /\ store[i].comms_history[2].date_sent = Padded(0)
        /\ ret.last_comm_date[i] = Padded(0)

(***************************************************************************)
(* C13                                                                     *)
(***************************************************************************)
\* the planned communication at place k of project i is listed as due
ListedAsDue(data, i, comm) ==
    \E e \in DueNow(data, today) : e.project_id = data[i].id /\ e.planned_comm = comm

\* C13: when a communication to one audience is recorded with a target date,
\* every planned communication of that project with that date and that
\* audience among several is marked sent at once and is no longer among the
\* due communications, while the step has recorded one history entry, for that
\* one audience only.
C13_SentAfterOneAudience ==
    [][ UpdateSucceeded =>
          \A k \in DOMAIN PlannedBefore(UpdateTarget) :
             ( /\ Matches(PlannedBefore(UpdateTarget)[k], UpdateDate, UpdateAudience)
               /\ Len(PlannedBefore(UpdateTarget)[k].audiences) > 1 )
             => /\ GetStatus(PlannedAfter(UpdateTarget)[k]) = "sent"
                /\ ~ListedAsDue(store', UpdateTarget, PlannedAfter(UpdateTarget)[k])
                /\ ~ListedAsDue(store', UpdateTarget, PlannedBefore(UpdateTarget)[k])
                /\ store'[UpdateTarget].comms_history =
                      Append(store[UpdateTarget].comms_history, UpdateEntry)
                /\ UpdateEntry.audience = UpdateAudience ]_vars

\* a communication planned for users and developers and due today is sent
\* and not listed, the project's whole history being one entry, to developers
C13_Witness ==
    /\ call.op = "send_email" /\ ret.http = 200
    /\ LET i == FindProject(store, call.post.project_id)
       IN  /\ \E c \in Range(store[i].comms_plan.planned) :
                /\ c.audiences = <<"users", "developers">>
                /\ c.target_date = Padded(today)
                /\ c.status = "sent"
                /\ ~ListedAsDue(store, i, c)
           /\ store[i].comms_history =
                 <<[date_sent |-> strftime(today), audience |-> "developers"]>>
           /\ DueNow(store, today) # {}

(***************************************************************************)
(* C14                                                                     *)
(***************************************************************************)
\* the step is a generate_comms_plan for project i
PlanRequestedFor(i) ==
    call'.op = "generate_comms_plan" /\ call'.project_id = store[i].id

\* C14: a planned communication's status only moves towards 'sent'. In every
\* step other than a generate_comms_plan for its project, the project keeps
\* its planned communications, each with the status it had or 'sent'; one
\* that is 'sent' is left exactly as it is, and is not among the due
\* communications afterwards.
C14_SentStaysSent ==
    [][ \A i \in DOMAIN store :
          ~PlanRequestedFor(i) =>
             /\ Len(PlannedAfter(i)) = Len(PlannedBefore(i))
             /\ \A k \in DOMAIN PlannedBefore(i) :
                  /\ GetStatus(PlannedAfter(i)[k]) \in
                        {GetStatus(PlannedBefore(i)[k]), "sent"}
                  /\ GetStatus(PlannedBefore(i)[k]) = "sent" =>
                        /\ PlannedAfter(i)[k] = PlannedBefore(i)[k]
                        /\ ~ListedAsDue(store', i, PlannedAfter(i)[k]) ]_vars

\* a second communication has been recorded for a project after one of its
\* planned communications was sent: that one is still sent, another one of
\* the project is still pending and due
C14_Witness ==
    /\ call.op = "send_email" /\ ret.http = 200
    /\ LET i == FindProject(store, call.post.project_id)
       IN  /\ Len(store[i].comms_history) = 2
           /\ store[i].comms_history[1].audience = "developers"
           /\ call.post.audience = "users"
           /\ \E c \in Range(store[i].comms_plan.planned) :
                c.audiences = <<"users", "developers">> /\ c.status = "sent"
           /\ \E c \in Range(store[i].comms_plan.planned) :
                c.status = "pending" /\ ListedAsDue(store, i, c)

(***************************************************************************)
(* C15                                                                     *)
(***************************************************************************)
\* the step is a generate_comms_plan that returned a plan for a stored project
PlanGenerated ==
    /\ call'.op = "generate_comms_plan"
    /\ ret'.kind = "plan"
    /\ FindProject(store, call'.project_id) # 0

\* C15: generate_comms_plan for a stored project replaces that project's whole
\* comms_plan by the generated plan (nothing of the previous planned
\* communications or their statuses is kept) and changes nothing else: the
\* project's other fields and every other project are as before.
C15_PlanReplacedNothingElse ==
    [][ PlanGenerated =>
          LET i == FindProject(store, call'.project_id)
          IN  /\ Len(store') = Len(store)
              /\ store'[i] = [store[i] EXCEPT !.comms_plan = ret'.plan]
              /\ \A j \in DOMAIN store : j # i => store'[j] = store[j] ]_vars

\* the frame of generate_comms_plan whether it saves or not: only the
\* comms_plan of that project can differ, and it is the returned plan on every
\* path but the except branch
PlanFrameOnly ==
    [][ PlanGenerated =>
          LET i == FindProject(store, call'.project_id)
          IN  /\ Len(store') = Len(store)
              /\ store'[i] = [store[i] EXCEPT !.comms_plan = store'[i].comms_plan]
              /\ store'[i].comms_plan \in {ret'.plan, store[i].comms_plan}
              /\ ret'.path # "except" => store'[i].comms_plan = ret'.plan
              /\ \A j \in DOMAIN store : j # i => store'[j] = store[j] ]_vars

(***************************************************************************)
(* C16                                                                     *)
(***************************************************************************)
\* generate_comms_plan returned the fallback plan
FallbackReturned ==
    /\ call.op = "generate_comms_plan"
    /\ ret.kind = "plan"
    /\ ret.path \in {"fallback", "except"}

\* the distances in days of the fallback plan's target dates from today
FallbackOffsets == <<14, 35, 56, 77, 30, 60, 90>>

RECURSIVE Kept(_)
Kept(selected) ==
    IF selected = <<>> THEN <<>>
    ELSE (IF Head(selected).project_id = NoId \/ Head(selected).planned_comm = NoComm
          THEN <<>> ELSE <<Head(selected)>>) \o Kept(Tail(selected))

\* the audiences the drafts are for: those of the kept items whose project
\* is in the store
RECURSIVE AudiencesSelected(_, _)
AudiencesSelected(data, items) ==
    IF items = <<>> THEN <<>>
    ELSE (IF FindProject(data, Head(items).project_id) = 0 THEN <<>>
          ELSE GetAudiences(Head(items).planned_comm))
         \o AudiencesSelected(data, Tail(items))

\* C17: in a successful /generate-drafts response every element of drafts is
\* an email draft (it has a subject and a body) for one audience of one
\* selected communication: there is one per audience of each selected item
\* that has a project_id and a planned_comm and names a stored project, in
\* that order; skipped items and items naming an unknown project add nothing;
\* and the N of 'Generated N draft(s)' is the number of drafts.
C17_OnlyDraftsInResponse ==
    (call.op = "generate_drafts" /\ ret.http = 200) =>
        LET auds == AudiencesSelected(store, Kept(call.selected))
        IN  /\ ret.success
            /\ ret.count = Len(ret.drafts)
            /\ Len(ret.drafts) = Len(auds)
            /\ \A k \in DOMAIN ret.drafts :
                /\ {"subject", "body", "audience"} \subseteq ret.drafts[k].keys
                /\ k \in DOMAIN auds => ret.drafts[k].audience = auds[k]

====
